---------------------------- MODULE Spec2Model ----------------------------
(***************************************************************************)
(* State-machine model of DiffusionPolicyUNet                              *)
(* (src/robomimic/algo/diffusion_policy.py): the receding-horizon action   *)
(* queue (reset / get_action / _get_action_trajectory) and the training    *)
(* path (process_batch_for_training / train_on_batch).                     *)
(*                                                                         *)
(* Abstractions.  A tensor of shape [B, T, Da] is modelled with B = 1 and  *)
(* Da = 1, i.e. as a sequence over the time axis.  The entries of the      *)
(* trajectory denoised by the k-th sampler invocation are the tags         *)
(* <<k, t>>, t the 0-based time index, so that the provenance of every     *)
(* returned action can be traced.  Action values of a training batch are   *)
(* integers in units of 1 (2 stands for any value above 1).  Trainable     *)
(* parameters are modelled by their version: the number of optimizer       *)
(* steps applied to them.  A noisy trajectory inside the sampler is         *)
(* modelled by the sequence of reverse-diffusion steps applied to the      *)
(* initial Gaussian noise.                                                 *)
(***************************************************************************)
EXTENDS Integers, Sequences, FiniteSets

\* ------------------------------------------------------------------ bounds
MaxTo == 2
MaxTa == 2
MaxTp == 3
MaxInferenceSteps == 2
MaxSamples == 3
MaxBatchLen == 3
MaxTrainSteps == 2
\* noise_scheduler.config.num_train_timesteps, held at one value
NumTrainTimesteps == 4

\* Action values a batch may hold: -2 and 2 are outside [-1, 1], the
\* boundary values -1 and 1 are inside.
ActVals == {-2, -1, 1, 2}

VARIABLES
    algo_config,        \* horizon / ema / inference configuration (read only)
    training,           \* self.nets.training
    action_check_done,  \* self.action_check_done
    obs_queue,          \* self.obs_queue
    action_queue,       \* self.action_queue
    params,             \* version of the trainable parameters self.nets
    opt_steps,          \* steps taken by self.optimizers["policy"]
    ema,                \* self.ema: [enabled, optimization_step, shadow]
    call,               \* the last API call: [op, arg, status, value]
    n_invoked,          \* history: _get_action_trajectory invocations so far
    n_predicted,        \* history: noise_pred_net invocations by the sampler so far
    epoch_base,         \* history: n_invoked at the last reset()
    returned,           \* history: actions returned by get_action since reset()
    sampled,            \* history: sampler results since reset()
    denoising,          \* history: the denoising run of the last completed sampler call
    clean,              \* history: no get_action raised since reset()
    dropped             \* history: entries discarded by the last reset()

vars == <<algo_config, training, action_check_done, obs_queue, action_queue,
          params, opt_steps, ema, call, n_invoked, n_predicted, epoch_base,
          returned, sampled, denoising, clean, dropped>>

rolloutVars == <<obs_queue, action_queue, n_invoked, n_predicted, epoch_base,
                 returned, sampled, denoising, clean, dropped>>
trainVars == <<action_check_done, params, opt_steps, ema>>

\* ----------------------------------------------------------- configuration
To == algo_config.observation_horizon
Ta == algo_config.action_horizon
Tp == algo_config.prediction_horizon

\* -------------------------------------------------------- python helpers
Min(a, b) == IF a < b THEN a ELSE b
Max(a, b) == IF a > b THEN a ELSE b

\* Python's seq[start:stop] (step 1): a negative index counts from the end,
\* both indices are clamped to [0, len], an empty range gives an empty result.
PySlice(s, start, stop) ==
    LET n  == Len(s)
        lo == IF start < 0 THEN Max(n + start, 0) ELSE Min(start, n)
        hi == IF stop < 0 THEN Max(n + stop, 0) ELSE Min(stop, n)
    IN  IF lo < hi THEN SubSeq(s, lo + 1, hi) ELSE <<>>

\* collections.deque(maxlen=n); the attribute value None is the record with
\* maxlen = -1 (deque itself rejects a negative maxlen).
NoneQueue == [maxlen |-> -1, items |-> <<>>]
IsNone(q) == q.maxlen = -1
Deque(n) == [maxlen |-> n, items |-> <<>>]

\* deque.extend(xs): appends on the right; once maxlen is reached the oldest
\* entries are silently discarded from the left.
DequeExtend(q, xs) ==
    LET all == q.items \o xs
        n   == Len(all)
    IN  [q EXCEPT !.items = IF n > q.maxlen
                            THEN SubSeq(all, n - q.maxlen + 1, n)
                            ELSE all]

\* deque.popleft() on a non-empty deque: the entry removed and what is left.
\* (faulty variant, pop() instead of popleft(): the newest entry first)
PopRight(q) == [value |-> q.items[Len(q.items)],
                rest  |-> [q EXCEPT !.items = SubSeq(q.items, 1, Len(q.items) - 1)]]
PopLeft(q) == [value |-> Head(q.items),
               rest  |-> [q EXCEPT !.items = Tail(q.items)]]

RECURSIVE Flatten(_)
Flatten(ss) == IF ss = <<>> THEN <<>> ELSE Head(ss) \o Flatten(Tail(ss))

NoArg == [actions |-> <<>>, validate |-> FALSE]
Call(op, arg, status, value) ==
    [op |-> op, arg |-> arg, status |-> status, value |-> value]

\* No sampler call has completed yet.
NoRun == [encoder_nets |-> "none", timesteps |-> <<>>, log |-> <<>>, naction |-> <<>>]

\* ------------------------------------------------------------------- Init
Configs ==
    [observation_horizon : 1..MaxTo,
     action_horizon : 1..MaxTa,
     prediction_horizon : 1..MaxTp,
     ema_enabled : BOOLEAN,
     num_inference_timesteps : 1..MaxInferenceSteps]

Init ==
    /\ algo_config \in Configs
    /\ training = TRUE
    /\ action_check_done = FALSE
    /\ obs_queue = NoneQueue
    /\ action_queue = NoneQueue
    /\ params = 0
    /\ opt_steps = 0
    /\ ema = [enabled |-> algo_config.ema_enabled, optimization_step |-> 0, shadow |-> 0]
    /\ call = Call("init", NoArg, "ok", <<>>)
    /\ n_invoked = 0
    /\ n_predicted = 0
    /\ epoch_base = 0
    /\ returned = <<>>
    /\ sampled = <<>>
    /\ denoising = NoRun
    /\ clean = TRUE
    /\ dropped = 0

\* ------------------------------------------------------- train / eval mode
SetEval ==
    /\ training' = FALSE
    /\ UNCHANGED <<algo_config, call, rolloutVars, trainVars>>

SetTrain ==
    /\ training' = TRUE
    /\ UNCHANGED <<algo_config, call, rolloutVars, trainVars>>

\* ------------------------------------------------------------------ reset
\* (faulty variant: an existing action queue is kept, not reallocated)
KeepActionQueue(old) == IF IsNone(old) THEN Deque(Ta) ELSE old
NewActionQueue(old) == Deque(Ta)
NewObsQueue(old) == Deque(To)

Reset ==
    /\ obs_queue' = NewObsQueue(obs_queue)
    /\ action_queue' = NewActionQueue(action_queue)
    /\ call' = Call("reset", NoArg, "ok", <<>>)
    /\ epoch_base' = n_invoked
    /\ returned' = <<>>
    /\ sampled' = <<>>
    /\ clean' = TRUE
    /\ dropped' = Len(action_queue.items)
    /\ UNCHANGED <<algo_config, training, n_invoked, n_predicted, denoising, trainVars>>

\* ----------------------------------------------------------------- sampler
\* The Tp-long trajectory the reverse-diffusion loop of invocation k ends with.
Denoised(k) == [t \in 1..Tp |-> <<k, t - 1>>]

\* start = To - 1; end = start + Ta; action = naction[:, start:end]
SliceWindow(naction) == PySlice(naction, To - 1, (To - 1) + Ta)

\* nets = self.nets; if self.ema is not None: nets = self.ema.averaged_model
\* (faulty variant: the trainable networks are used whatever self.ema is)
SelectNetsLive == "nets"
SelectNets == IF ema.enabled THEN "ema.averaged_model" ELSE "nets"

\* noisy_action = torch.randn((B, Tp, action_dim)); naction = noisy_action
InitialNoise == <<>>

\* noise_scheduler.set_timesteps(n) and the noise_scheduler.timesteps it
\* leaves: n descending step indices, a strided subsequence of the schedule.
SetTimesteps(n) == [i \in 1..n |-> (n - i) * (NumTrainTimesteps \div n)]

\* nets["policy"]["noise_pred_net"](sample, timestep, global_cond): the
\* predicted residual, a function of the networks and the inputs.
NoisePredNet(nets, sample, timestep) ==
    [nets |-> nets, sample |-> sample, timestep |-> timestep]

\* noise_scheduler.step(model_output, timestep, sample).prev_sample: the
\* sample with one more reverse step applied.
SchedulerStep(model_output, timestep, sample) ==
    Append(sample, [timestep |-> timestep, model_output |-> model_output])

\* The record of one call made by the loop: its inputs and its result.
PredictEvent(nets, sample, timestep, result) ==
    [op |-> "noise_pred_net", nets |-> nets, timestep |-> timestep,
     sample |-> sample, result |-> result]
StepEvent(model_output, timestep, sample, result) ==
    [op |-> "step", model_output |-> model_output, timestep |-> timestep,
     sample |-> sample, result |-> result]

\* for k in self.noise_scheduler.timesteps: predict the noise on naction, then
\* replace naction by the scheduler's prev_sample.  The result is the final
\* naction and the calls made, in order.
\* (faulty variant: every prediction and step is made on the initial
\* noisy_action instead of the current naction)
RECURSIVE DenoiseLoopOnInitialNoise(_, _, _)
DenoiseLoopOnInitialNoise(timesteps, naction, nets) ==
    IF timesteps = <<>>
    THEN [naction |-> naction, log |-> <<>>]
    ELSE LET k           == Head(timesteps)
             noise_pred  == NoisePredNet(nets, InitialNoise, k)
             prev_sample == SchedulerStep(noise_pred, k, InitialNoise)
             rest        == DenoiseLoopOnInitialNoise(Tail(timesteps), prev_sample, nets)
         IN  [naction |-> rest.naction,
              log |-> <<PredictEvent(nets, InitialNoise, k, noise_pred),
                        StepEvent(noise_pred, k, InitialNoise, prev_sample)>>
                      \o rest.log]
RECURSIVE DenoiseLoop(_, _, _)
DenoiseLoop(timesteps, naction, nets) ==
    IF timesteps = <<>>
    THEN [naction |-> naction, log |-> <<>>]
    ELSE LET k           == Head(timesteps)
             noise_pred  == NoisePredNet(nets, naction, k)
             prev_sample == SchedulerStep(noise_pred, k, naction)
             rest        == DenoiseLoop(Tail(timesteps), prev_sample, nets)
         IN  [naction |-> rest.naction,
              log |-> <<PredictEvent(nets, naction, k, noise_pred),
                        StepEvent(noise_pred, k, naction, prev_sample)>>
                      \o rest.log]

\* The sampler's body after the assertion: select the networks, encode the
\* observation with them, draw the noise, set the timesteps, run the loop.
DenoisingRun ==
    LET nets      == SelectNets
        timesteps == SetTimesteps(algo_config.num_inference_timesteps)
        loop      == DenoiseLoop(timesteps, InitialNoise, nets)
    IN  [encoder_nets |-> nets, timesteps |-> timesteps,
         log |-> loop.log, naction |-> loop.naction]

PredictorCalls(log) ==
    Cardinality({i \in 1..Len(log) : log[i].op = "noise_pred_net"})

\* _get_action_trajectory, invocation k: the assert on the mode comes first.
\* (faulty variant: no assertion on the mode)
get_action_trajectory_unasserted(k) ==
    [status |-> "ok",
     predictor_calls |-> PredictorCalls(DenoisingRun.log),
     run |-> DenoisingRun,
     action |-> SliceWindow(Denoised(k))]
get_action_trajectory(k) ==
    IF training
    THEN [status |-> "AssertionError", predictor_calls |-> 0, run |-> NoRun,
          action |-> <<>>]
    ELSE [status |-> "ok",
          predictor_calls |-> PredictorCalls(DenoisingRun.log),
          run |-> DenoisingRun,
          action |-> SliceWindow(Denoised(k))]

\* ------------------------------------------------------------- get_action
\* if len(self.action_queue) == 0
\* (faulty variant: refill whenever the queue is not full)
NeedsRefillBelowCapacity(q) == Len(q.items) < q.maxlen
NeedsRefill(q) == Len(q.items) = 0

GetAction ==
    \/ \* the queues are still None: len(None) raises TypeError
       /\ IsNone(action_queue)
       /\ call' = Call("get_action", NoArg, "TypeError", <<>>)
       /\ clean' = FALSE
       /\ UNCHANGED <<algo_config, training, obs_queue, action_queue, n_invoked,
                      n_predicted, epoch_base, returned, sampled, denoising,
                      dropped, trainVars>>
    \/ \* no actions left: run inference, enqueue its result, pop the oldest
       /\ ~IsNone(action_queue)
       /\ NeedsRefill(action_queue)
       /\ n_invoked < MaxSamples
       /\ LET r  == get_action_trajectory(n_invoked + 1)
              q1 == DequeExtend(action_queue, r.action)
          IN  /\ n_invoked' = n_invoked + 1
              /\ n_predicted' = n_predicted + r.predictor_calls
              /\ IF r.status # "ok"
                 THEN /\ call' = Call("get_action", NoArg, r.status, <<>>)
                      /\ clean' = FALSE
                      /\ UNCHANGED <<action_queue, returned, sampled, denoising>>
                 ELSE /\ sampled' = Append(sampled, r.action)
                      /\ denoising' = r.run
                      /\ IF q1.items = <<>>
                         THEN \* popleft() of an empty deque raises IndexError
                              /\ call' = Call("get_action", NoArg, "IndexError", <<>>)
                              /\ clean' = FALSE
                              /\ action_queue' = q1
                              /\ UNCHANGED returned
                         ELSE /\ call' = Call("get_action", NoArg, "ok", PopLeft(q1).value)
                              /\ action_queue' = PopLeft(q1).rest
                              /\ returned' = Append(returned, PopLeft(q1).value)
                              /\ UNCHANGED clean
       /\ UNCHANGED <<algo_config, training, obs_queue, epoch_base, dropped, trainVars>>
    \/ \* has action: execute from left to right
       /\ ~IsNone(action_queue)
       /\ ~NeedsRefill(action_queue)
       /\ call' = Call("get_action", NoArg, "ok", PopLeft(action_queue).value)
       /\ action_queue' = PopLeft(action_queue).rest
       /\ returned' = Append(returned, PopLeft(action_queue).value)
       /\ UNCHANGED <<algo_config, training, obs_queue, n_invoked, n_predicted,
                      epoch_base, sampled, denoising, clean, dropped, trainVars>>

\* ---------------------------------------------- process_batch_for_training
Batches == UNION {[1..n -> ActVals] : n \in 1..MaxBatchLen}

\* in_range = (-1 <= actions) & (actions <= 1)
\* (faulty variant: the lower bound is not checked)
InRangeUpperOnly(a) == a <= 1
InRange(a) == (-1 <= a) /\ (a <= 1)

\* torch.all(in_range)
AllInRange(actions) == \A i \in 1..Len(actions) : InRange(actions[i])

\* input_batch["actions"] = batch["actions"][:, :Tp, :]
SliceToTp(batch) == PySlice(batch, 0, Tp)

\* The check is made only while action_check_done is False.
\* (faulty variant: the flag is ignored)
CheckNeededAlways(done) == TRUE
CheckNeeded(done) == ~done

ProcessBatch(batch) ==
    LET actions == SliceToTp(batch)
        arg     == [actions |-> batch, validate |-> FALSE]
    IN  /\ IF CheckNeeded(action_check_done) /\ ~AllInRange(actions)
           THEN /\ call' = Call("process_batch_for_training", arg, "ValueError", <<>>)
                /\ UNCHANGED action_check_done
           ELSE /\ call' = Call("process_batch_for_training", arg, "ok", actions)
                /\ action_check_done' = (IF CheckNeeded(action_check_done)
                                         THEN TRUE ELSE action_check_done)
        /\ UNCHANGED <<algo_config, training, params, opt_steps, ema, rolloutVars>>

\* --------------------------------------------------------- train_on_batch
\* self.ema.step(self.nets): one decay step towards the parameters p.
EmaStep(e, p) == [e EXCEPT !.optimization_step = @ + 1, !.shadow = p]

\* if not validate: backprop_for_loss (one optimizer step), then the EMA step
\* on the updated parameters when self.ema is not None.
\* (faulty variant: the EMA step reads the parameters before the update)
UpdateEmaFirst(p, o, e) ==
    [params |-> p + 1, opt_steps |-> o + 1,
     ema |-> IF e.enabled THEN EmaStep(e, p) ELSE e]
Update(p, o, e) ==
    [params |-> p + 1, opt_steps |-> o + 1,
     ema |-> IF e.enabled THEN EmaStep(e, p + 1) ELSE e]

\* if not validate
UpdatesParams(validate) == ~validate

TrainOnBatch(validate) ==
    \* batch: "sampled from a data loader and filtered by
    \* @process_batch_for_training"
    /\ call.op = "process_batch_for_training"
    /\ call.status = "ok"
    /\ validate \/ params < MaxTrainSteps
    /\ call' = Call("train_on_batch",
                    [actions |-> call.value, validate |-> validate], "ok", <<>>)
    /\ IF UpdatesParams(validate)
       THEN /\ params' = Update(params, opt_steps, ema).params
            /\ opt_steps' = Update(params, opt_steps, ema).opt_steps
            /\ ema' = Update(params, opt_steps, ema).ema
       ELSE UNCHANGED <<params, opt_steps, ema>>
    /\ UNCHANGED <<algo_config, training, action_check_done, rolloutVars>>

\* --------------------------------------------------------- specifications
\* Rollout: the inference API of one policy instance.
Next == Reset \/ GetAction \/ SetEval \/ SetTrain
Spec == Init /\ [][Next]_vars

\* Training: the data-loader path of one policy instance.  It reads only the
\* prediction horizon and the EMA switch of the configuration, so the other
\* options are held at one value.
TrainInit ==
    /\ Init
    /\ algo_config.observation_horizon = 1
    /\ algo_config.action_horizon = 1
    /\ algo_config.num_inference_timesteps = 1

TrainNext ==
    \/ \E batch \in Batches : ProcessBatch(batch)
    \/ \E validate \in BOOLEAN : TrainOnBatch(validate)
TrainSpec == TrainInit /\ [][TrainNext]_vars

\* ================================================================= claims
CeilDiv(n, d) == (n + d - 1) \div d

\* A step that is a get_action call (a call on queues that are still None
\* changes nothing but the call record).
GetActionStep == call'.op = "get_action" /\ <<call, n_invoked>>' # <<call, n_invoked>>
ProcessStep ==
    /\ call'.op = "process_batch_for_training"
    /\ <<call, action_check_done>>' # <<call, action_check_done>>
TrainStep == call'.op = "train_on_batch" /\ call.op = "process_batch_for_training"
OutOfRange(a) == a < -1 \/ a > 1

\* C1: after reset(), n successive successful get_action calls with no
\* intervening reset cause exactly ceil(n / Ta) sampler invocations, for
\* every horizon configuration (To, Ta, Tp).
C1_InvocationsAreCeilOfCallsOverTa ==
    (~IsNone(action_queue) /\ clean)
        => n_invoked - epoch_base = CeilDiv(Len(returned), Ta)

\* C2 (as stated): between two resets the returned actions are exactly the
\* concatenation of the sampler results: when the next reset comes, every
\* action the sampler produced has been returned.
C2_AllSampledReturnedByReset ==
    [][(call'.op = "reset" /\ ~IsNone(action_queue))
          => returned = Flatten(sampled)]_vars

\* C2 (amended): between two resets the returned actions are, in order, a
\* prefix of the concatenation of the sampler results, the entries not yet
\* returned are exactly the queue's content, and no action is returned twice.
C2_FifoFidelity ==
    ~IsNone(action_queue) =>
        /\ returned \o action_queue.items = Flatten(sampled)
        /\ \A i, j \in 1..Len(returned) : i # j => returned[i] # returned[j]

\* C2 witness: the second sampler result of an episode is being consumed.
C2_Witness ==
    /\ Len(sampled) >= 2
    /\ Len(returned) > Len(sampled[1])
    /\ Len(sampled[1]) >= 2
    /\ action_queue.items # <<>>

\* C3: every sampler result holds exactly Ta entries, those at the time
\* indices To-1, ..., To-2+Ta of the denoised trajectory, for every horizon
\* configuration the policy can be constructed with.
C3_SamplerReturnsTaEntries ==
    \A i \in 1..Len(sampled) :
        /\ Len(sampled[i]) = Ta
        /\ \A j \in 1..Len(sampled[i]) :
              /\ sampled[i][j][2] = To - 2 + j
              /\ sampled[i][j][1] = sampled[i][1][1]

\* C5: the action queue holds between 0 and Ta entries, at most Ta - 1 after
\* a get_action that returned, and the sampler is invoked only from a state
\* whose action queue is empty.
C5_QueueBoundsAndLazyRefill ==
    /\ [](~IsNone(action_queue) =>
            /\ Len(action_queue.items) >= 0
            /\ Len(action_queue.items) <= Ta
            /\ (call.op = "get_action" /\ call.status = "ok")
                  => Len(action_queue.items) <= Ta - 1)
    /\ [][n_invoked' # n_invoked
            => (~IsNone(action_queue) /\ Len(action_queue.items) = 0)]_vars

\* C5 witness: a get_action returned and left Ta - 1 >= 1 entries queued.
C5_Witness ==
    /\ call.op = "get_action"
    /\ call.status = "ok"
    /\ Ta >= 2
    /\ Len(action_queue.items) = Ta - 1

\* C6: reset() leaves both queues empty with capacities To and Ta, the first
\* get_action after a reset invokes the sampler, and no action queued before
\* a reset is returned after it.
C6_ResetClearsQueues ==
    /\ [][call'.op = "reset"
            => (obs_queue' = Deque(To) /\ action_queue' = Deque(Ta))]_vars
    /\ [][(call.op = "reset" /\ GetActionStep)
            => n_invoked' = n_invoked + 1]_vars
    /\ [](\A i \in 1..Len(returned) : returned[i][1] > epoch_base)
    /\ []((call.op = "get_action" /\ call.status = "ok")
            => call.value[1] > epoch_base)

\* C6 witness: a reset discarded queued actions and an action was returned
\* after it.
C6_Witness == dropped >= 1 /\ Len(returned) >= 1

\* C7: a batch given to the training path while no batch has passed the
\* check yet, holding a value outside [-1, 1] within its first Tp timesteps,
\* fails with the range error; parameters, optimizer state and EMA shadow
\* are unchanged by the failed call, and no training step follows it.
C7_RangeViolationFailsBeforeUpdate ==
    /\ [][(/\ ProcessStep
           /\ ~action_check_done
           /\ \E i \in 1..Min(Tp, Len(call'.arg.actions)) :
                 OutOfRange(call'.arg.actions[i]))
            => (/\ call'.status = "ValueError"
                /\ params' = params
                /\ opt_steps' = opt_steps
                /\ ema' = ema
                /\ ~action_check_done')]_vars
    /\ [][call.status = "ValueError"
            => (params' = params /\ opt_steps' = opt_steps /\ ema' = ema)]_vars

\* C7 witness: the first call failed on a value outside the range.
C7_Witness ==
    /\ call.op = "process_batch_for_training"
    /\ call.status = "ValueError"
    /\ ~action_check_done
    /\ params = 0
    /\ \E i \in 1..Len(call.arg.actions) : call.arg.actions[i] = 2

\* C8: a get_action that has to refill while the networks are in training
\* mode fails on the sampler's assertion before any predictor invocation,
\* leaves the (empty) action queue unchanged, and a get_action from an empty
\* queue always invokes the sampler.
C8_SamplingRequiresEvalMode ==
    /\ [][(/\ training
           /\ ~IsNone(action_queue)
           /\ action_queue.items = <<>>
           /\ GetActionStep)
            => (/\ call'.status = "AssertionError"
                /\ n_invoked' = n_invoked + 1
                /\ n_predicted' = n_predicted
                /\ action_queue' = action_queue
                /\ sampled' = sampled
                /\ returned' = returned)]_vars
    /\ [][(~IsNone(action_queue) /\ action_queue.items = <<>> /\ GetActionStep)
            => n_invoked' = n_invoked + 1]_vars

\* C8 witness: two get_action calls in a row failed on the assertion.
C8_Witness ==
    /\ call.op = "get_action"
    /\ call.status = "AssertionError"
    /\ n_invoked - epoch_base >= 2
    /\ sampled = <<>>
    /\ action_queue.items = <<>>

\* C9: train_on_batch with validate leaves parameters, optimizer state and
\* EMA shadow unchanged; without validate it applies one optimizer step and,
\* with EMA enabled, one EMA step on the updated parameters, so the EMA step
\* count equals the optimizer step count.
C9_TrainStepEffect ==
    /\ [][TrainStep =>
            IF call'.arg.validate
            THEN params' = params /\ opt_steps' = opt_steps /\ ema' = ema
            ELSE /\ params' = params + 1
                 /\ opt_steps' = opt_steps + 1
                 /\ ema.enabled =>
                       /\ ema'.optimization_step = ema.optimization_step + 1
                       /\ ema'.shadow = params'
                 /\ ~ema.enabled => ema' = ema]_vars
    /\ [][~TrainStep
            => (params' = params /\ opt_steps' = opt_steps /\ ema' = ema)]_vars
    /\ [](ema.enabled => ema.optimization_step = opt_steps)

\* C9 witness: a validation step after two updating steps with EMA enabled.
C9_Witness ==
    /\ ema.enabled
    /\ opt_steps = 2
    /\ ema.shadow = 2
    /\ call.op = "train_on_batch"
    /\ call.arg.validate

\* C10: action_check_done is false after construction, becomes true exactly
\* when a batch passes the range check, is never cleared, stays false when a
\* batch fails, and once it is true no batch raises the range error.
C10_RangeCheckRunsOnce ==
    /\ ~action_check_done
    /\ [][/\ action_check_done => action_check_done'
          /\ (~action_check_done /\ action_check_done')
                => (ProcessStep /\ call'.status = "ok")
          /\ (ProcessStep /\ ~action_check_done) =>
                /\ call'.status \in {"ok", "ValueError"}
                /\ (call'.status = "ok") <=>
                      (\A i \in 1..Min(Tp, Len(call'.arg.actions)) :
                          ~OutOfRange(call'.arg.actions[i]))
                /\ action_check_done' <=> (call'.status = "ok")
          /\ (ProcessStep /\ action_check_done) => call'.status = "ok"]_vars

\* C10 witness: with the flag set, a batch holding a value outside the range
\* was processed without error.
C10_Witness ==
    /\ action_check_done
    /\ call.op = "process_batch_for_training"
    /\ call.status = "ok"
    /\ \E i \in 1..Len(call.value) : OutOfRange(call.value[i])

\* C11: within one sampler call the loop visits the configured step indices
\* once each, in order; at each index it calls the predictor once on the
\* current trajectory and then the reverse step once on the same trajectory
\* and that prediction, whose result is the current trajectory of the next
\* index; it ends after exactly num_inference_timesteps predictor calls, and
\* with EMA enabled the encoder and every predictor call use the EMA shadow
\* networks.
C11_DenoisingLoop ==
    denoising # NoRun =>
        LET ts     == denoising.timesteps
            log    == denoising.log
            n      == algo_config.num_inference_timesteps
            cur(i) == IF i = 1 THEN InitialNoise ELSE log[2 * (i - 1)].result
        IN  /\ ts = SetTimesteps(n)
            /\ Len(log) = 2 * Len(ts)
            /\ \A i \in 1..Len(ts) :
                  /\ log[2 * i - 1].op = "noise_pred_net"
                  /\ log[2 * i - 1].timestep = ts[i]
                  /\ log[2 * i - 1].sample = cur(i)
                  /\ log[2 * i - 1].result
                        = NoisePredNet(log[2 * i - 1].nets, cur(i), ts[i])
                  /\ log[2 * i].op = "step"
                  /\ log[2 * i].timestep = ts[i]
                  /\ log[2 * i].sample = cur(i)
                  /\ log[2 * i].model_output = log[2 * i - 1].result
                  /\ log[2 * i].result
                        = SchedulerStep(log[2 * i - 1].result, ts[i], cur(i))
            /\ denoising.naction = cur(Len(ts) + 1)
            /\ Len(denoising.naction) = n
            /\ PredictorCalls(log) = n
            /\ ema.enabled =>
                  /\ denoising.encoder_nets = "ema.averaged_model"
                  /\ \A i \in 1..Len(ts) :
                        log[2 * i - 1].nets = "ema.averaged_model"
            /\ ~ema.enabled =>
                  /\ denoising.encoder_nets = "nets"
                  /\ \A i \in 1..Len(ts) : log[2 * i - 1].nets = "nets"

\* C11 witness: a sampler call with EMA enabled ran a loop of at least two
\* step indices.
C11_Witness ==
    /\ denoising # NoRun
    /\ ema.enabled
    /\ Len(denoising.timesteps) >= 2
    /\ denoising.timesteps[1] > denoising.timesteps[2]
    /\ call.op = "get_action"
    /\ call.status = "ok"

=============================================================================
